---------------------------- MODULE Spec2Model ----------------------------
(***************************************************************************)
(* Model of scripts/convert_pfs.py (class ConvertPFS): the construction of *)
(* the publisher registry and of the four subscribers in __init__, and the *)
(* per-sample callback cb with publish_proximity, publish_force and        *)
(* publish_imu.                                                            *)
(*                                                                         *)
(* Numbers.  The code computes in floating point; the model computes the   *)
(* same expressions exactly, on integers and rationals:                    *)
(*   proximity_a   in units of 1e-4 (a = 0.01 is 100)                      *)
(*   proximity_b, preload, raw proximity and raw force: integers (counts)  *)
(*   sensitivity   in tenths (3.7 is 37)                                   *)
(*   distance      in whole millimetres, rounded down; 0.1 m is 100 and    *)
(*                 floor(d) < 100 iff d < 100, so the gate is exact        *)
(*   force, imu    rationals <<numerator, denominator>> in lowest terms    *)
(* Floating-point rounding is not modelled.  The coefficients are taken to *)
(* be floats (true division) and every sample to carry 24 proximity and 24 *)
(* force readings.                                                         *)
(*                                                                         *)
(* Exceptions.  math.sqrt of a negative number raises ValueError, a        *)
(* division by a zero sensitivity raises ZeroDivisionError, a missing      *)
(* attribute or registry key raises AttributeError or KeyError; each ends  *)
(* the callback where it is raised (the transport logs it and goes on).    *)
(***************************************************************************)
EXTENDS Integers, Sequences, FiniteSets, TLC

VARIABLES
    initpc,      \* index of the next step of __init__ in InitProgram
    attrs,       \* the attributes of self assigned so far
    pfs_params,  \* self.pfs_params: the calibration table
    pub,         \* self.pub: registry path -> dict or publisher
    subs,        \* the (gripper, fingertip) pairs whose Subscriber exists
    running      \* the callback that has just run, or NoCall

vars == <<initpc, attrs, pfs_params, pub, subs, running>>

-----------------------------------------------------------------------------
(* Lists of __init__ *)

grippers == <<"l_gripper", "r_gripper">>

fingertips == <<"l_fingertip", "r_fingertip">>

parts == <<"pfs_a_front", "pfs_b_top", "pfs_b_back", "pfs_b_left", "pfs_b_right">>

sensors == <<"proximity_distance", "proximity_cloud", "wrench", "force", "imu">>

msg_types == <<"Float32", "PointCloud2", "WrenchStamped", "WrenchStamped", "Imu">>

Range(s) == {s[n] : n \in DOMAIN s}

Pairs == {<<g, f>> : g \in Range(grippers), f \in Range(fingertips)}

-----------------------------------------------------------------------------
(* Topology *)

sensor_num(part) == IF part = "pfs_a_front" THEN 8 ELSE 4

\* a variant of sensor_index: pfs_b_back with the offset of pfs_b_top
sensor_index_back_offset(part, i) ==
    IF part = "pfs_a_front" THEN i
    ELSE IF part = "pfs_b_top" THEN 8 + i
    ELSE IF part = "pfs_b_back" THEN 8 + i
    ELSE IF part = "pfs_b_left" THEN 16 + i
    ELSE 20 + i

\* The code has no else branch: a part outside the five names leaves index
\* unbound.  Every caller passes a member of parts.
sensor_index(part, i) ==
    IF part = "pfs_a_front" THEN i
    ELSE IF part = "pfs_b_top" THEN 8 + i
    ELSE IF part = "pfs_b_back" THEN 12 + i
    ELSE IF part = "pfs_b_left" THEN 16 + i
    ELSE 20 + i

\* range(n)
range(n) == 0 .. (n - 1)

-----------------------------------------------------------------------------
(* The registry self.pub.  A nested dict is a function from paths to       *)
(* entries: <<g>>, <<g, f>>, <<g, f, part>> and the per-sensor kinds       *)
(* <<g, f, part, sensor>> are dicts, the leaves are publishers.            *)

DictEntry == [kind |-> "dict", topic |-> "", msg_type |-> ""]

\* rospy.Publisher(topic, msg_type, queue_size=1)
Publisher(topic, msg_type) == [kind |-> "Publisher", topic |-> topic, msg_type |-> msg_type]

\* '/pfs/{}/{}/{}/{}'.format(gripper, fingertip, part, sensor)
BoardTopic(g, f, part, sensor) ==
    "/pfs/" \o g \o "/" \o f \o "/" \o part \o "/" \o sensor

\* '/pfs/{}/{}/{}/{}/{}'.format(gripper, fingertip, part, sensor, i)
SensorTopic(g, f, part, sensor, i) ==
    "/pfs/" \o g \o "/" \o f \o "/" \o part \o "/" \o sensor \o "/" \o ToString(i)

\* '/pfs/{}/{}'.format(gripper, fingertip)
SubscribedTopic(g, f) == "/pfs/" \o g \o "/" \o f

IsPrefix(p, k) == Len(p) <= Len(k) /\ \A n \in 1 .. Len(p) : k[n] = p[n]

\* d[key] = {} : the old value under the key, with all below it, is dropped
SetDict(reg, path) ==
    LET kept == {k \in DOMAIN reg : ~IsPrefix(path, k)}
    IN  [k \in kept \cup {path} |-> IF k = path THEN DictEntry ELSE reg[k]]

\* a variant of SensorKeys: without the `continue` for imu on a pfs_b board
SensorKeysImuEveryBoard(g, f, part) ==
    {<<g, f, part, sensors[n]>> : n \in DOMAIN sensors}
    \cup {<<g, f, part, sensors[n], i>> :
            n \in {m \in DOMAIN sensors :
                     sensors[m] \in {"proximity_distance", "proximity_cloud", "force"}},
            i \in range(sensor_num(part))}

\* The keys one pass of the loop over zip(sensors, msg_types) assigns
SensorKeys(g, f, part) ==
    {<<g, f, part, sensors[n]>> :
        n \in {m \in DOMAIN sensors :
                 ~(sensors[m] = "imu" /\ part # "pfs_a_front")}}
    \cup {<<g, f, part, sensors[n], i>> :
            n \in {m \in DOMAIN sensors :
                     sensors[m] \in {"proximity_distance", "proximity_cloud", "force"}},
            i \in range(sensor_num(part))}

MsgTypeOf(sensor) == msg_types[CHOOSE n \in DOMAIN sensors : sensors[n] = sensor]

SensorEntry(k) ==
    IF Len(k) = 5 THEN Publisher(SensorTopic(k[1], k[2], k[3], k[4], k[5]), MsgTypeOf(k[4]))
    ELSE IF k[4] \in {"imu", "wrench"}
         THEN Publisher(BoardTopic(k[1], k[2], k[3], k[4]), MsgTypeOf(k[4]))
         ELSE DictEntry

\* self.pub[gripper][fingertip][part] = {} and the loop over the sensors
RegisterPart(reg, g, f, part) ==
    LET base == SetDict(reg, <<g, f, part>>)
        new  == SensorKeys(g, f, part)
    IN  [k \in DOMAIN base \cup new |-> IF k \in new THEN SensorEntry(k) ELSE base[k]]

Publishers(reg) == {k \in DOMAIN reg : reg[k].kind = "Publisher"}

-----------------------------------------------------------------------------
(* __init__ as the sequence of its steps, in program order *)

Step(op, g, f, part) == [op |-> op, g |-> g, f |-> f, part |-> part]

RECURSIVE Flatten(_)
Flatten(ss) == IF ss = <<>> THEN <<>> ELSE Head(ss) \o Flatten(Tail(ss))

\* a variant of FingertipSteps: the Subscriber created first, not last
FingertipStepsSubscribeFirst(g, f) ==
    <<Step("subscribe", g, f, ""), Step("fingertip", g, f, "")>>
    \o [n \in DOMAIN parts |-> Step("part", g, f, parts[n])]

\* the body of `for fingertip in self.fingertips`
FingertipSteps(g, f) ==
    <<Step("fingertip", g, f, "")>>
    \o [n \in DOMAIN parts |-> Step("part", g, f, parts[n])]
    \o <<Step("subscribe", g, f, "")>>

\* the body of `for gripper in self.grippers`
GripperSteps(g) ==
    <<Step("gripper", g, "", "")>>
    \o Flatten([n \in DOMAIN fingertips |-> FingertipSteps(g, fingertips[n])])

InitProgram ==
    <<Step("get_param", "", "", ""), Step("pub", "", "", "")>>
    \o Flatten([n \in DOMAIN grippers |-> GripperSteps(grippers[n])])

InitDone == initpc > Len(InitProgram)

-----------------------------------------------------------------------------
(* Exact arithmetic *)

Abs(x) == IF x < 0 THEN -x ELSE x

RECURSIVE GCD(_, _)
GCD(x, y) == IF y = 0 THEN x ELSE GCD(y, x % y)

\* the rational n/d (d # 0) in lowest terms with a positive denominator
Rat(n, d) ==
    LET g == GCD(Abs(n), Abs(d))
        s == IF d < 0 THEN -1 ELSE 1
    IN  <<(s * n) \div g, (s * d) \div g>>

RatAdd(p, q) ==
    LET g == GCD(p[2], q[2])
    IN  Rat(p[1] * (q[2] \div g) + q[1] * (p[2] \div g), (p[2] \div g) * q[2])

RatDivInt(p, n) ==
    LET g == GCD(Abs(p[1]), n)
    IN  Rat(p[1] \div g, p[2] * (n \div g))

\* floor of the square root of x >= 0
RECURSIVE ISqrt(_)
ISqrt(x) ==
    IF x < 2 THEN x
    ELSE LET s == 2 * ISqrt(x \div 4)
         IN  IF (s + 1) * (s + 1) <= x THEN s + 1 ELSE s

Max(x, y) == IF x >= y THEN x ELSE y

-----------------------------------------------------------------------------
(* Calibration transform *)

Inf == [raised |-> FALSE, inf |-> TRUE, mm |-> 0]

Finite(mm) == [raised |-> FALSE, inf |-> FALSE, mm |-> mm]

\* math.sqrt of a negative number raises ValueError
Raised == [raised |-> TRUE, inf |-> FALSE, mm |-> 0]

\* a variant of proximity_to_distance: without the test a == 0
proximity_to_distance_no_sentinel(proximity, a, b) ==
    LET den10 == Max(1, 10 * (proximity - b))
    IN  IF a < 0 THEN Raised
        ELSE Finite(ISqrt((1000 * a) \div den10))

\* The body of proximity_to_distance once a and b are read.  max(0.1,
\* proximity - b) is den10 tenths; a / den is (1000 * a) / den10 mm^2.
proximity_to_distance(proximity, a, b) ==
    LET den10 == Max(1, 10 * (proximity - b))
    IN  IF a = 0 THEN Inf
        ELSE IF a < 0 THEN Raised
        ELSE Finite(ISqrt((1000 * a) \div den10))

\* a variant of Gate: <= for <
GateInclusive(distance) == ~distance.inf /\ distance.mm <= 100

\* distance < 0.1 ; float('inf') < 0.1 is false
Gate(distance) == ~distance.inf /\ distance.mm < 100

\* 0.105 * (raw - preload) / sensitivity, sensitivity (in tenths) nonzero
force_from_raw(raw, preload, sensitivity) == Rat(21 * (raw - preload), 20 * sensitivity)

\* x * 0.001 for each of x, y, z
imu_scale(v) == [n \in DOMAIN v |-> Rat(v[n], 1000)]

-----------------------------------------------------------------------------
(* The callback.  c is what the callback reads: the registry and the table *)
(* as they are when it runs, the sample and the bound args.  s is what it  *)
(* has done so far: the messages published, the table entries read, the    *)
(* distances computed, header.frame_id, and the exception that ended it.   *)

Ctx(reg, at, table, msg, g, f) ==
    [reg |-> reg, attrs |-> at, table |-> table, msg |-> msg, g |-> g, f |-> f]

Start == [status |-> "ok", out |-> <<>>, reads |-> {}, computed |-> <<>>, frame_id |-> ""]

Raise(s, e) == [s EXCEPT !.status = e]

\* self.pub[...]...publish(m)
Publish(c, s, key, m) ==
    IF "pub" \notin c.attrs THEN Raise(s, "AttributeError")
    ELSE IF key \notin DOMAIN c.reg THEN Raise(s, "KeyError")
    ELSE [s EXCEPT !.out = Append(@, [key |-> key, topic |-> c.reg[key].topic, msg |-> m])]

ReadKey(c, field, index) == <<c.g, c.f, field, index>>

\* self.pfs_params[gripper][fingertip][field][index]
Param(c, field, index) == c.table[<<c.g, c.f>>][field][index]

frame_id_base(c, part) == "/" \o c.g \o "_" \o c.f \o "_" \o part

SensorFrame(c, part, i) == frame_id_base(c, part) \o "_" \o ToString(i)

MarkRead(s, keys) == [s EXCEPT !.reads = @ \cup keys]

\* one pass of the loop `for i in range(sensor_num)` of publish_proximity
ProximitySensor(c, s, part, i) ==
    LET index    == sensor_index(part, i)
        s1       == [s EXCEPT !.frame_id = SensorFrame(c, part, i)]
        s2       == MarkRead(s1, {ReadKey(c, "proximity_a", index),
                                  ReadKey(c, "proximity_b", index)})
        distance == proximity_to_distance(c.msg.proximity[index],
                                          Param(c, "proximity_a", index),
                                          Param(c, "proximity_b", index))
        s3       == [s2 EXCEPT !.computed =
                        Append(@, [part |-> part, i |-> i, distance |-> distance])]
        dist_msg == [type |-> "Float32", data |-> distance.mm]
        prox_msg == [type |-> "PointCloud2", stamp |-> c.msg.stamp,
                     frame_id |-> s3.frame_id, point |-> <<0, 0, distance.mm>>]
        s4       == Publish(c, s3, <<c.g, c.f, part, "proximity_distance", i>>, dist_msg)
    IN  IF "pfs_params" \notin c.attrs THEN Raise(s1, "AttributeError")
        ELSE IF distance.raised THEN Raise(s2, "ValueError")
        ELSE IF ~Gate(distance) THEN s3
        ELSE IF s4.status # "ok" THEN s4
        ELSE Publish(c, s4, <<c.g, c.f, part, "proximity_cloud", i>>, prox_msg)

RECURSIVE ProximityLoop(_, _, _, _)
ProximityLoop(c, s, part, i) ==
    IF s.status # "ok" \/ i >= sensor_num(part) THEN s
    ELSE ProximityLoop(c, ProximitySensor(c, s, part, i), part, i + 1)

RECURSIVE ProximityParts(_, _, _)
ProximityParts(c, s, n) ==
    IF s.status # "ok" \/ n > Len(parts) THEN s
    ELSE ProximityParts(c, ProximityLoop(c, s, parts[n], 0), n + 1)

publish_proximity(c, s) == ProximityParts(c, s, 1)

WrenchMsg(c, s, force) ==
    [type |-> "WrenchStamped", stamp |-> c.msg.stamp, frame_id |-> s.frame_id,
     force_z |-> force]

\* one pass of the loop `for i in range(sensor_num)` of publish_force; acc
\* is average_force
ForceSensor(c, s, acc, part, i) ==
    LET index       == sensor_index(part, i)
        s1          == MarkRead(s, {ReadKey(c, "preload", index),
                                    ReadKey(c, "sensitivity", index)})
        preload     == Param(c, "preload", index)
        sensitivity == Param(c, "sensitivity", index)
        force       == force_from_raw(c.msg.force[index], preload, sensitivity)
        s2          == [s1 EXCEPT !.frame_id = SensorFrame(c, part, i)]
    IN  IF "pfs_params" \notin c.attrs THEN <<Raise(s, "AttributeError"), acc>>
        ELSE IF sensitivity = 0 THEN <<Raise(s1, "ZeroDivisionError"), acc>>
        ELSE <<Publish(c, s2, <<c.g, c.f, part, "force", i>>, WrenchMsg(c, s2, force)),
               RatAdd(acc, RatDivInt(force, sensor_num(part)))>>

RECURSIVE ForceLoop(_, _, _, _, _)
ForceLoop(c, s, acc, part, i) ==
    IF s.status # "ok" \/ i >= sensor_num(part) THEN <<s, acc>>
    ELSE LET r == ForceSensor(c, s, acc, part, i)
         IN  ForceLoop(c, r[1], r[2], part, i + 1)

\* the board's wrench, after the loop over its sensors
BoardWrench(c, s, acc, part) ==
    LET s1 == [s EXCEPT !.frame_id = frame_id_base(c, part)]
    IN  Publish(c, s1, <<c.g, c.f, part, "wrench">>, WrenchMsg(c, s1, acc))

\* one pass of the loop `for part in self.parts` of publish_force
ForcePart(c, s, part) ==
    LET r == ForceLoop(c, s, <<0, 1>>, part, 0)
    IN  IF r[1].status # "ok" THEN r[1] ELSE BoardWrench(c, r[1], r[2], part)

RECURSIVE ForceParts(_, _, _)
ForceParts(c, s, n) ==
    IF s.status # "ok" \/ n > Len(parts) THEN s
    ELSE ForceParts(c, ForcePart(c, s, parts[n]), n + 1)

publish_force(c, s) == IF s.status # "ok" THEN s ELSE ForceParts(c, s, 1)

\* msg.imu is scaled in place and published with the header it came with
publish_imu(c, s) ==
    IF s.status # "ok" THEN s
    ELSE Publish(c, s, <<c.g, c.f, "pfs_a_front", "imu">>,
                 [type |-> "Imu", stamp |-> c.msg.imu.stamp,
                  frame_id |-> c.msg.imu.frame_id,
                  angular_velocity |-> imu_scale(c.msg.imu.angular_velocity),
                  linear_acceleration |-> imu_scale(c.msg.imu.linear_acceleration)])

\* cb: the three publish calls in order; an exception ends the callback
cb_result(c) == publish_imu(c, publish_force(c, publish_proximity(c, Start)))

-----------------------------------------------------------------------------
(* Inputs: the calibration tables get_param may return, and the samples    *)
(* the transport may deliver.                                              *)

MaxStamp == 2

MaxExcess == 2

Fields == {"proximity_a", "proximity_b", "preload", "sensitivity"}

Indexes == 0 .. 23

\* a = 0.01, b = 5, preload = 500, sensitivity = 3.7
DefaultCal == [proximity_a |-> 100, proximity_b |-> 5, preload |-> 500, sensitivity |-> 37]

\* What the entries of one sensor k may be instead: calibration not done
\* (a = 0), a negative a, a zero sensitivity, and another calibrated sensor.
OddCals ==
    {[k |-> 7,  proximity_a |-> 0,    proximity_b |-> 0, preload |-> 500, sensitivity |-> 37],
     [k |-> 23, proximity_a |-> -100, proximity_b |-> 5, preload |-> 500, sensitivity |-> 37],
     [k |-> 0,  proximity_a |-> 100,  proximity_b |-> 5, preload |-> 500, sensitivity |-> 0],
     [k |-> 8,  proximity_a |-> 400,  proximity_b |-> 3, preload |-> 470, sensitivity |-> 27]}

Calibration(odd) ==
    [field \in Fields |->
        [idx \in Indexes |-> IF idx = odd.k THEN odd[field] ELSE DefaultCal[field]]]

\* a fingertip that was never calibrated
Uncalibrated ==
    [field \in Fields |->
        [idx \in Indexes |-> IF field = "sensitivity" THEN 47
                             ELSE IF field = "preload" THEN 450 ELSE 0]]

\* the fingertips that may be the calibrated one
FocusPairs == {<<grippers[1], fingertips[1]>>, <<grippers[2], fingertips[2]>>}

Tables ==
    {[p \in Pairs |-> IF p = focus THEN Calibration(odd) ELSE Uncalibrated] :
        focus \in FocusPairs, odd \in OddCals}

\* Over the 24 sensors the raw proximity takes every value 5 .. 5 + MaxExcess
\* and the raw force the values 480, 500, ...; shift moves the pattern.  The
\* stamp of the embedded imu header is the sample's or one later.
Sample(stamp, imu_late, shift) ==
    [stamp     |-> stamp,
     proximity |-> [idx \in Indexes |-> 5 + ((idx + shift) % (MaxExcess + 1))],
     force     |-> [idx \in Indexes |-> 480 + 20 * ((idx + 2 * shift) % (MaxExcess + 2))],
     imu       |-> [stamp |-> stamp + imu_late, frame_id |-> "imu",
                    angular_velocity |-> <<shift, -1000, 2500>>,
                    linear_acceleration |-> <<0, 9800, -1 - shift>>]]

Samples ==
    {Sample(stamp, imu_late, shift) :
        stamp \in 1 .. MaxStamp, imu_late \in {0, 1}, shift \in 0 .. MaxExcess}

-----------------------------------------------------------------------------
(* State machine *)

NoSample ==
    [stamp |-> 0, proximity |-> <<>>, force |-> <<>>,
     imu |-> [stamp |-> 0, frame_id |-> "", angular_velocity |-> <<>>,
              linear_acceleration |-> <<>>]]

NoCall ==
    [active |-> FALSE, g |-> "", f |-> "", msg |-> NoSample, status |-> "",
     out |-> <<>>, reads |-> {}, computed |-> <<>>]

Init ==
    /\ initpc = 1
    /\ attrs = {}
    /\ pfs_params = <<>>
    /\ pub = <<>>
    /\ subs = {}
    /\ running = NoCall

AtStep(op) == initpc <= Len(InitProgram) /\ InitProgram[initpc].op = op

\* self.pfs_params = rospy.get_param('/pfs')
get_param ==
    /\ AtStep("get_param")
    /\ \E table \in Tables : pfs_params' = table
    /\ attrs' = attrs \cup {"pfs_params"}
    /\ initpc' = initpc + 1
    /\ UNCHANGED <<pub, subs, running>>

\* self.pub = {}
new_pub ==
    /\ AtStep("pub")
    /\ pub' = <<>>
    /\ attrs' = attrs \cup {"pub"}
    /\ initpc' = initpc + 1
    /\ UNCHANGED <<pfs_params, subs, running>>

\* self.pub[gripper] = {}
new_gripper ==
    /\ AtStep("gripper")
    /\ pub' = SetDict(pub, <<InitProgram[initpc].g>>)
    /\ initpc' = initpc + 1
    /\ UNCHANGED <<attrs, pfs_params, subs, running>>

\* self.pub[gripper][fingertip] = {}
new_fingertip ==
    /\ AtStep("fingertip")
    /\ pub' = SetDict(pub, <<InitProgram[initpc].g, InitProgram[initpc].f>>)
    /\ initpc' = initpc + 1
    /\ UNCHANGED <<attrs, pfs_params, subs, running>>

\* one pass of `for part in self.parts`
register_part ==
    /\ AtStep("part")
    /\ pub' = RegisterPart(pub, InitProgram[initpc].g, InitProgram[initpc].f,
                           InitProgram[initpc].part)
    /\ initpc' = initpc + 1
    /\ UNCHANGED <<attrs, pfs_params, subs, running>>

\* rospy.Subscriber('/pfs/<gripper>/<fingertip>', ..., self.cb, (gripper, fingertip))
subscribe ==
    /\ AtStep("subscribe")
    /\ subs' = subs \cup {<<InitProgram[initpc].g, InitProgram[initpc].f>>}
    /\ initpc' = initpc + 1
    /\ UNCHANGED <<attrs, pfs_params, pub, running>>

\* The transport delivers a sample to a subscriber and cb runs to its end.
\* The callback threads start with the Subscriber, so this may happen while
\* __init__ is still running.  The callback is one step: it writes nothing
\* but its own locals and msg, and what it reads of self (the table and its
\* pair's publishers) is not changed by __init__ once its Subscriber exists
\* (OwnRegistryStable below).
cb ==
    /\ ~running.active
    /\ \E p \in subs, msg \in Samples :
          LET r == cb_result(Ctx(pub, attrs, pfs_params, msg, p[1], p[2]))
          IN  running' = [active |-> TRUE, g |-> p[1], f |-> p[2], msg |-> msg,
                          status |-> r.status, out |-> r.out, reads |-> r.reads,
                          computed |-> r.computed]
    /\ UNCHANGED <<initpc, attrs, pfs_params, pub, subs>>

\* the callback has returned (or its exception was logged by the transport)
ret ==
    /\ running.active
    /\ running' = NoCall
    /\ UNCHANGED <<initpc, attrs, pfs_params, pub, subs>>

Next ==
    \/ get_param
    \/ new_pub
    \/ new_gripper
    \/ new_fingertip
    \/ register_part
    \/ subscribe
    \/ cb
    \/ ret

Spec == Init /\ [][Next]_vars

-----------------------------------------------------------------------------
(* What the properties are stated in: the boards and channels as the       *)
(* specification names them, and the log of the callback that has run.     *)

Boards == {"pfs_a_front", "pfs_b_top", "pfs_b_back", "pfs_b_left", "pfs_b_right"}

BoardSize(board) == IF board = "pfs_a_front" THEN 8 ELSE 4

Offset(board) ==
    CASE board = "pfs_a_front" -> 0
      [] board = "pfs_b_top"   -> 8
      [] board = "pfs_b_back"  -> 12
      [] board = "pfs_b_left"  -> 16
      [] board = "pfs_b_right" -> 20

Slots == UNION {{<<board, i>> : i \in 0 .. (BoardSize(board) - 1)} : board \in Boards}

RECURSIVE Join(_)
Join(path) == IF path = <<>> THEN "" ELSE "/" \o Head(path) \o Join(Tail(path))

\* /pfs/<gripper>/<fingertip>/<board>/<kind>[/<index>]
Channel(key) ==
    IF Len(key) = 5
    THEN Join(<<"pfs", key[1], key[2], key[3], key[4], ToString(key[5])>>)
    ELSE Join(<<"pfs", key[1], key[2], key[3], key[4]>>)

PerSensorKinds == {"proximity_distance", "proximity_cloud", "force"}

ChannelKeys(g, f) ==
    {<<g, f, sl[1], kind, sl[2]>> : sl \in Slots, kind \in PerSensorKinds}
    \cup {<<g, f, board, "wrench">> : board \in Boards}
    \cup {<<g, f, "pfs_a_front", "imu">>}

AllChannelKeys == UNION {ChannelKeys(p[1], p[2]) : p \in Pairs}

Out == running.out

OutAt(key) == {n \in DOMAIN Out : Out[n].key = key}

OutOfType(type) == {n \in DOMAIN Out : Out[n].msg.type = type}

Key(sl, kind) == <<running.g, running.f, sl[1], kind, sl[2]>>

FrameOf(sl) == "/" \o running.g \o "_" \o running.f \o "_" \o sl[1] \o "_" \o ToString(sl[2])

BoardFrame(board) == "/" \o running.g \o "_" \o running.f \o "_" \o board

ComputedFor(sl) ==
    {n \in DOMAIN running.computed :
        running.computed[n].part = sl[1] /\ running.computed[n].i = sl[2]}

\* the calibration entries of the fingertip the callback ran for
Cal == pfs_params[<<running.g, running.f>>]

SensitivitiesNonzero == \A idx \in 0 .. 23 : Cal["sensitivity"][idx] # 0

-----------------------------------------------------------------------------
(* C1.  Publish gate: in the processing of a sample, for every (board,     *)
(* local index) the proximity_distance and the proximity_cloud message are *)
(* emitted both or neither, at most once, on that sensor's own channels,   *)
(* and they are emitted exactly when a distance was computed for the       *)
(* sensor and it is strictly below 0.1 m (100 mm); the scalar is that      *)
(* distance and the point is (0, 0, distance).  No proximity message goes  *)
(* out on any other channel.                                               *)

C1_PublishGate ==
    running.active =>
        /\ \A sl \in Slots :
              LET D    == OutAt(Key(sl, "proximity_distance"))
                  C    == OutAt(Key(sl, "proximity_cloud"))
                  near == {n \in ComputedFor(sl) :
                              /\ ~running.computed[n].distance.inf
                              /\ running.computed[n].distance.mm < 100}
              IN  /\ Cardinality(D) = Cardinality(C)
                  /\ Cardinality(D) <= 1
                  /\ Cardinality(ComputedFor(sl)) <= 1
                  /\ (D # {}) <=> (near # {})
                  /\ \A n \in D, m \in near :
                        /\ n + 1 \in C
                        /\ Out[n].topic = Channel(Key(sl, "proximity_distance"))
                        /\ Out[n + 1].topic = Channel(Key(sl, "proximity_cloud"))
                        /\ Out[n].msg.type = "Float32"
                        /\ Out[n].msg.data = running.computed[m].distance.mm
                        /\ Out[n + 1].msg.type = "PointCloud2"
                        /\ Out[n + 1].msg.point = <<0, 0, running.computed[m].distance.mm>>
        /\ \A n \in OutOfType("Float32") \cup OutOfType("PointCloud2") :
              \E sl \in Slots :
                 Out[n].key \in {Key(sl, "proximity_distance"), Key(sl, "proximity_cloud")}

\* a callback in which one sensor passed the gate, one was at exactly 0.1 m
\* and one was beyond it
C1_Witness ==
    /\ running.active
    /\ \E sl \in Slots : OutAt(Key(sl, "proximity_distance")) # {}
    /\ \E n \in DOMAIN running.computed :
          ~running.computed[n].distance.inf /\ running.computed[n].distance.mm = 100
    /\ \E n \in DOMAIN running.computed :
          ~running.computed[n].distance.inf /\ running.computed[n].distance.mm > 100

-----------------------------------------------------------------------------
(* C2.  Uncalibrated sensor: for a sensor whose proximity_a is 0, whatever *)
(* the raw reading and proximity_b, proximity_to_distance returns infinity *)
(* (not below 0.1) and does not raise; no proximity_distance and no        *)
(* proximity_cloud message is emitted for it, and the callback does not    *)
(* end at that sensor.                                                     *)

C2_Uncalibrated ==
    running.active =>
        /\ \A idx \in 0 .. 23, idb \in 0 .. 23 :
              LET d == proximity_to_distance(running.msg.proximity[idx], 0,
                                             Cal["proximity_b"][idb])
              IN  ~d.raised /\ d.inf /\ ~Gate(d)
        /\ \A sl \in Slots :
              Cal["proximity_a"][Offset(sl[1]) + sl[2]] = 0 =>
                 /\ OutAt(Key(sl, "proximity_distance")) = {}
                 /\ OutAt(Key(sl, "proximity_cloud")) = {}
                 /\ \A n \in ComputedFor(sl) : running.computed[n].distance.inf
                 \* the callback did not end at this sensor, the next to compute
                 /\ ~(/\ running.status # "ok"
                      /\ Len(running.computed) = Offset(sl[1]) + sl[2])

\* a callback that returned normally for a fingertip with an uncalibrated
\* sensor among calibrated ones that passed the gate
C2_Witness ==
    /\ running.active
    /\ running.status = "ok"
    /\ \E sl \in Slots :
          /\ Cal["proximity_a"][Offset(sl[1]) + sl[2]] = 0
          /\ ComputedFor(sl) # {}
    /\ OutOfType("Float32") # {}

-----------------------------------------------------------------------------
(* C3.  Per-sensor force is never gated: for every sample delivered under  *)
(* a fully populated table with nonzero sensitivities, exactly one force   *)
(* wrench is emitted for each of the 24 sensors, on that sensor's force    *)
(* channel and with that sensor's frame id, whatever the distances and     *)
(* whatever the proximity coefficients of the fingertip.                   *)

C3_ForceNeverGated ==
    (running.active /\ SensitivitiesNonzero) =>
        \A sl \in Slots :
           /\ Cardinality(OutAt(Key(sl, "force"))) = 1
           /\ \A n \in OutAt(Key(sl, "force")) :
                 /\ Out[n].topic = Channel(Key(sl, "force"))
                 /\ Out[n].msg.type = "WrenchStamped"
                 /\ Out[n].msg.frame_id = FrameOf(sl)

\* The same for the callbacks in which no proximity coefficient a is
\* negative: there math.sqrt has no domain error to raise.
ForceNeverGatedUnlessSqrtRaises ==
    (running.active /\ SensitivitiesNonzero
        /\ \A idx \in 0 .. 23 : Cal["proximity_a"][idx] >= 0) =>
        \A sl \in Slots :
           /\ Cardinality(OutAt(Key(sl, "force"))) = 1
           /\ \A n \in OutAt(Key(sl, "force")) :
                 /\ Out[n].topic = Channel(Key(sl, "force"))
                 /\ Out[n].msg.frame_id = FrameOf(sl)

-----------------------------------------------------------------------------
(* C4.  Board-average wrench: for every sample and each of the 5 boards    *)
(* exactly one board wrench is emitted, after all force messages of that   *)
(* board and before any force message of the next board; its force z is    *)
(* the sum of the board's per-sensor forces divided by the board's sensor  *)
(* count, and its frame id is the board's, not the last sensor's.  Stated  *)
(* for the tables whose sensitivities are all nonzero, as the              *)
(* configuration must be.                                                  *)

RECURSIVE RatSum(_)
RatSum(fs) == IF fs = <<>> THEN <<0, 1>> ELSE RatAdd(Head(fs), RatSum(Tail(fs)))

\* the forces the callback emitted for the board, in the order of the index
BoardForces(board) ==
    [i \in 1 .. BoardSize(board) |->
        Out[CHOOSE n \in OutAt(Key(<<board, i - 1>>, "force")) : TRUE].msg.force_z]

BoardAverageHolds(board) ==
    LET W == OutAt(<<running.g, running.f, board, "wrench">>)
    IN  /\ Cardinality(W) = 1
        /\ \A i \in 0 .. (BoardSize(board) - 1) : OutAt(Key(<<board, i>>, "force")) # {}
        /\ \A w \in W :
              /\ Out[w].topic = Channel(<<running.g, running.f, board, "wrench">>)
              /\ Out[w].msg.frame_id = BoardFrame(board)
              /\ Out[w].msg.force_z = RatDivInt(RatSum(BoardForces(board)), BoardSize(board))
              \* after the board's forces, before any other board's later force
              /\ \A i \in 0 .. (BoardSize(board) - 1) :
                    \A n \in OutAt(Key(<<board, i>>, "force")) : n < w
              /\ \A sl \in Slots :
                    sl[1] # board =>
                       \A n \in OutAt(Key(sl, "force")) :
                          n < w <=> Offset(sl[1]) < Offset(board)

C4_BoardAverage ==
    (running.active /\ SensitivitiesNonzero) =>
        \A board \in Boards : BoardAverageHolds(board)

\* The same for the callbacks that returned normally.
BoardAverageOnReturn ==
    (running.active /\ running.status = "ok") =>
        \A board \in Boards : BoardAverageHolds(board)

-----------------------------------------------------------------------------
(* C5.  IMU: for every sample delivered exactly one IMU message is         *)
(* emitted, on the pfs_a_front imu channel of the sample's gripper and     *)
(* fingertip and on no other channel, and each of its six components is    *)
(* the raw component times 0.001, applied once.  Stated for the tables     *)
(* whose sensitivities are all nonzero, as the configuration must be.      *)

ImuOnce ==
    LET key == <<running.g, running.f, "pfs_a_front", "imu">>
    IN  /\ Cardinality(OutOfType("Imu")) = 1
        /\ OutOfType("Imu") = OutAt(key)
        /\ \A n \in OutAt(key) :
              /\ Out[n].topic = Channel(key)
              /\ \A x \in 1 .. 3 :
                    /\ Out[n].msg.angular_velocity[x] =
                          Rat(running.msg.imu.angular_velocity[x], 1000)
                    /\ Out[n].msg.linear_acceleration[x] =
                          Rat(running.msg.imu.linear_acceleration[x], 1000)

C5_ImuOncePerSample == (running.active /\ SensitivitiesNonzero) => ImuOnce

\* The same for the callbacks that returned normally.
ImuOnceOnReturn == (running.active /\ running.status = "ok") => ImuOnce

-----------------------------------------------------------------------------
(* C8.  Shared timestamp: every stamped output of one sample (proximity    *)
(* cloud, per-sensor force wrench, board wrench, IMU) carries the stamp of *)
(* the sample's header, also when the embedded IMU header's stamp differs. *)

Stamped == {"PointCloud2", "WrenchStamped", "Imu"}

C8_SharedTimestamp ==
    running.active =>
        \A n \in DOMAIN Out :
           Out[n].msg.type \in Stamped => Out[n].msg.stamp = running.msg.stamp

\* The same without the IMU message, whose header is the embedded one.
SharedTimestampBuiltHeaders ==
    running.active =>
        \A n \in DOMAIN Out :
           Out[n].msg.type \in {"PointCloud2", "WrenchStamped"} =>
              Out[n].msg.stamp = running.msg.stamp

-----------------------------------------------------------------------------
(* C6.  Topology: sensor_num is 8 for pfs_a_front and 4 for each of the    *)
(* other four boards; sensor_index maps the (board, local index) pairs     *)
(* with 0 <= local index < sensor_num(board) one-to-one onto 0 .. 23 with  *)
(* the offsets front 0, top 8, back 12, left 16, right 20; a callback that *)
(* returns normally has therefore read the entries of every global index,  *)
(* and the registry holds one force publisher per pair of a board.         *)

CodeSlots == UNION {{<<part, i>> : i \in range(sensor_num(part))} : part \in Range(parts)}

C6_Topology ==
    /\ Range(parts) = Boards
    /\ \A board \in Boards : sensor_num(board) = BoardSize(board)
    /\ \A sl \in CodeSlots : sensor_index(sl[1], sl[2]) = Offset(sl[1]) + sl[2]
    /\ {sensor_index(sl[1], sl[2]) : sl \in CodeSlots} = 0 .. 23
    /\ \A s1 \in CodeSlots, s2 \in CodeSlots :
          sensor_index(s1[1], s1[2]) = sensor_index(s2[1], s2[2]) => s1 = s2
    /\ (running.active /\ running.status = "ok") =>
          \A field \in Fields :
             {r[4] : r \in {q \in running.reads : q[3] = field}} = 0 .. 23
    /\ InitDone =>
          \A p \in Pairs, board \in Boards :
             Cardinality({k \in Publishers(pub) :
                             /\ Len(k) = 5
                             /\ <<k[1], k[2]>> = p
                             /\ k[3] = board
                             /\ k[4] = "force"}) = BoardSize(board)

\* after __init__, a callback has gone through all 24 sensors
C6_Witness ==
    /\ InitDone
    /\ running.active
    /\ running.status = "ok"
    /\ Len(running.computed) = 24

-----------------------------------------------------------------------------
(* C7.  Output-channel registry: after initialization the registered       *)
(* publishers are exactly, for each of the 2 x 2 (gripper, fingertip): one *)
(* proximity_distance, one proximity_cloud and one force channel per       *)
(* (board, local index), one wrench channel per board and one imu channel  *)
(* for pfs_a_front only; each has its own topic name                       *)
(* /pfs/<gripper>/<fingertip>/<board>/<kind>[/<index>].                    *)

C7_Registry ==
    InitDone =>
        /\ Publishers(pub) = AllChannelKeys
        /\ \A k \in Publishers(pub) : pub[k].topic = Channel(k)
        /\ Cardinality({pub[k].topic : k \in Publishers(pub)}) = Cardinality(Publishers(pub))
        /\ \A k \in Publishers(pub) : k[4] = "imu" => k[3] = "pfs_a_front"
        /\ Cardinality(Publishers(pub)) = 4 * (3 * 24 + 5 + 1)

C7_Witness ==
    /\ InitDone
    /\ subs = Pairs
    /\ \E k \in Publishers(pub) : k[4] = "imu"
    /\ \E k \in Publishers(pub) : k[3] = "pfs_b_right" /\ Len(k) = 5 /\ k[5] = 3

-----------------------------------------------------------------------------
(* C9.  Initialization precedes delivery: no callback starts before        *)
(* initialization is complete, that is before the calibration table is     *)
(* loaded and the registry of all four (gripper, fingertip) pairs is       *)
(* built.                                                                  *)

C9_InitPrecedesDelivery ==
    running.active =>
        /\ "pfs_params" \in attrs
        /\ Publishers(pub) = AllChannelKeys

\* What does hold: the table is loaded before the first Subscriber exists.
TableBeforeSubscribers == subs # {} => {"pfs_params", "pub"} \subseteq attrs

-----------------------------------------------------------------------------
(* C10.  Callback isolation and safe lookup: whenever a Subscriber for     *)
(* (gripper, fingertip) exists, the table and every publisher that pair's  *)
(* callback uses exist; a callback never ends on a missing attribute or    *)
(* registry key, reads only calibration entries of its own pair and        *)
(* publishes only on channels of its own pair.                             *)

C10_IsolationAndLookup ==
    /\ \A p \in subs :
          /\ {"pfs_params", "pub"} \subseteq attrs
          /\ ChannelKeys(p[1], p[2]) \subseteq Publishers(pub)
          /\ p \in DOMAIN pfs_params
          /\ \A field \in Fields : DOMAIN pfs_params[p][field] = 0 .. 23
    /\ running.active =>
          /\ running.status \notin {"KeyError", "AttributeError"}
          /\ \A n \in DOMAIN Out :
                /\ Out[n].key \in ChannelKeys(running.g, running.f)
                /\ Out[n].topic = Channel(Out[n].key)
          /\ \A r \in running.reads : r[1] = running.g /\ r[2] = running.f

\* a callback has published while __init__ was still building the registry
\* of the other pairs
C10_Witness ==
    /\ running.active
    /\ ~InitDone
    /\ subs # Pairs
    /\ Len(Out) > 24

\* Once the Subscriber of a pair exists, __init__ changes neither the table
\* nor that pair's publishers.
OwnRegistryStable ==
    [][\A p \in subs :
          /\ pfs_params' = pfs_params
          /\ \A k \in ChannelKeys(p[1], p[2]) : k \in DOMAIN pub' /\ pub'[k] = pub[k]]_vars

=============================================================================
